---- MODULE Spec2Model ----
(***************************************************************************)
(* Admission pipeline of the prompt gateway (src/gateway_v2.py): the       *)
(* module-level stores (rate buckets, quota counts, fingerprint ring), the *)
(* pure text functions and the /query handler.                             *)
(*                                                                         *)
(* Text is a sequence of words.  A word stands for a run of characters of  *)
(* one kind (an approved prefix, blanks, a control character, a phrase a   *)
(* rule matches, a credential-shaped run, ...), so that strip, lower,      *)
(* NFKC, isprintable, len, startswith and the regular expressions are      *)
(* computed on it rather than assumed.                                     *)
(*                                                                         *)
(* Time is in whole seconds.  A token count is stored in units of          *)
(* 1/SECONDS_PER_MINUTE token, so that elapsed / 60.0 * refill_per_minute  *)
(* is exact: one second refills refill_per_minute units.                   *)
(***************************************************************************)
EXTENDS Integers, Sequences, FiniteSets, TLC

\* ------------------------------------------------------------- constants

RATE_LIMIT_BURST == 12

RATE_LIMIT_REFILL == 6

MAX_PROMPT_LEN == 5000

\* elapsed / 60.0 in token_bucket_allow
SECONDS_PER_MINUTE == 60

\* 24 * 3600 in reset_daily_quotas_if_needed
DAY == 24 * 3600

\* GATEWAY_DAILY_QUOTA of the environment (default 500), a small configured value
DAILY_QUOTA == 2

\* deque(maxlen=4096), scaled down
MAXLEN == 2

\* GATEWAY_API_KEYS of the environment: two configured credentials
API_KEYS == {"demo-key-123", "team-key-456"}

APPROVED_PREFIXES == {"Task:", "Question:", "User:", "Input:", "Query:"}

\* The patterns of DISALLOWED_PATTERNS, in list order.
DISALLOWED_PATTERNS ==
    << "\\+\\+OVERRIDE_POLICY\\+\\+",
       "ignore\\s+previous\\s+instructions",
       "disregard\\s+safety",
       "leak\\s+the\\s*api\\s*key",
       "reveal\\s+credentials?",
       "exfiltrat(e|ion)\\s+data",
       "disable\\s+(logging|monitoring)",
       "write\\s+malware" >>

\* ------------------------------------------------------------------ text

\* unicodedata.normalize("NFKC", .) of one word: compatibility characters
\* become their plain forms.
NFKC(w) == IF w = "<fullwidth Task:>" THEN "Task:" ELSE w

\* ch.isprintable(): control characters and line breaks are not printable.
isprintable(w) == w \notin {"<BEL>", "<LF>"}

\* What str.strip() removes at either end.
IsSpace(w) == w \in {" ", "<LF>"}

\* str.lower() of one word.
LowerWord(w) ==
    CASE w = "Task:" -> "task:"
      [] w = "Question:" -> "question:"
      [] w = "SUMMARIZE" -> "summarize"
      [] w = "++OVERRIDE_POLICY++" -> "++override_policy++"
      [] w = "Ignore Previous Instructions" -> "ignore previous instructions"
      [] w = "api_key=AbCdEfGh12345" -> "api_key=abcdefgh12345"
      [] w = "[REDACTED_SECRET]" -> "[redacted_secret]"
      [] OTHER -> w

\* The number of characters of one word.
WordLen(w) ==
    CASE w = "<x * 5001>" -> 5001
      [] w \in {" ", "<LF>", "<BEL>"} -> 1
      [] w \in {"Task:", "task:", "<fullwidth Task:>"} -> 5
      [] w \in {"Question:", "question:", "summarize", "SUMMARIZE", "translate"} -> 9
      [] w \in {"++OVERRIDE_POLICY++", "++override_policy++"} -> 19
      [] w \in {"Ignore Previous Instructions", "ignore previous instructions"} -> 28
      [] w = "write malware" -> 13
      [] w = "api_key=AbCdEfGh12345" -> 21
      [] w = "password=abc" -> 12
      [] OTHER -> 17

RECURSIVE len(_)
len(txt) == IF txt = <<>> THEN 0 ELSE WordLen(Head(txt)) + len(Tail(txt))

lower(txt) == [i \in DOMAIN txt |-> LowerWord(txt[i])]

RECURSIVE lstrip(_)
lstrip(txt) ==
    IF txt # <<>> /\ IsSpace(Head(txt)) THEN lstrip(Tail(txt)) ELSE txt

RECURSIVE rstrip(_)
rstrip(txt) ==
    IF txt # <<>> /\ IsSpace(txt[Len(txt)])
    THEN rstrip(SubSeq(txt, 1, Len(txt) - 1))
    ELSE txt

strip(txt) == rstrip(lstrip(txt))

\* str.startswith(tuple of prefixes)
startswith(txt, prefixes) == txt # <<>> /\ Head(txt) \in prefixes

\* The lower-case words a pattern matches (the patterns are compiled with
\* re.IGNORECASE, so a word matches when its lower-case form does).
PatternWords(pat) ==
    CASE pat = "\\+\\+OVERRIDE_POLICY\\+\\+" -> {"++override_policy++"}
      [] pat = "ignore\\s+previous\\s+instructions" -> {"ignore previous instructions"}
      [] pat = "write\\s+malware" -> {"write malware"}
      [] OTHER -> {}

\* rx.search(user_text) is not None
search(pat, txt) == \E i \in DOMAIN txt : LowerWord(txt[i]) \in PatternWords(pat)

\* SECRET_RX: (api[_-]?key|secret|password)\s*[:=]\s*[A-Za-z0-9_\-]{8,}, re.I;
\* "password=abc" has a value shorter than 8 characters.
SECRET_RX(w) == LowerWord(w) \in {"api_key=abcdefgh12345"}

\* ------------------------------------------------------ pure functions

normalize_text(txt) ==
    SelectSeq([i \in DOMAIN txt |-> NFKC(txt[i])], isprintable)

enforce_template(txt) == startswith(strip(txt), APPROVED_PREFIXES)

\* RULES: the compiled patterns, in the order of DISALLOWED_PATTERNS.
RULES == DISALLOWED_PATTERNS

\* Optional[str]: None, or the reason as <<text, pattern>>.
None == <<"None", "">>

\* The rule whose match comes first in the text, not first in the list.
RECURSIVE first_rule_by_position(_, _)
first_rule_by_position(user_text, i) ==
    IF user_text = <<>> THEN None
    ELSE LET hit == {n \in DOMAIN RULES : search(RULES[n], <<Head(user_text)>>)}
         IN  IF hit # {}
             THEN <<"Blocked by rule: ", RULES[CHOOSE n \in hit : TRUE]>>
             ELSE first_rule_by_position(Tail(user_text), i)

\* for rx in RULES: if rx.search(user_text): return ..., from the i-th rule on
RECURSIVE first_rule(_, _)
first_rule(user_text, i) ==
    IF i > Len(RULES) THEN None
    ELSE IF search(RULES[i], user_text) THEN <<"Blocked by rule: ", RULES[i]>>
    ELSE first_rule(user_text, i + 1)

sanitize_input(user_text) ==
    IF user_text = <<>> \/ strip(user_text) = <<>> THEN <<"Empty prompt.", "">>
    ELSE IF len(user_text) > MAX_PROMPT_LEN THEN <<"Prompt too long (>5000 chars).", "">>
    ELSE first_rule(user_text, 1)

\* hashlib.blake2b(..., digest_size=16).hexdigest() of the trimmed lower-case
\* text: a 128-bit digest, taken as collision free.
blake2b(txt) == <<"blake2b">> \o txt

fingerprint(txt) == blake2b(lower(strip(txt)))

redact_secrets(text) ==
    [i \in DOMAIN text |-> IF SECRET_RX(text[i]) THEN "[REDACTED_SECRET]" ELSE text[i]]

\* ----------------------------------------------------------------- state

VARIABLES
    now,               \* the wall clock time.time() reads, in seconds
    ip_buckets,        \* ip -> bucket
    key_buckets,       \* api key -> bucket
    key_daily_count,   \* api key -> requests counted since the last reset
    last_quota_reset,  \* _last_quota_reset
    RECENT_HASHES,     \* the deque of fingerprints, oldest first
    model_loaded,      \* _tokenizer and _model are set
    response,          \* what the last /query request was answered
    trace,             \* the steps of query() the last request went through, in order
    backend_out,       \* what generate_text returned to the last request
    served,            \* /query requests handled so far
    quota_passed,      \* history: api key -> requests past enforce_quotas since the last reset
    quota_times,       \* history: api key -> clock readings of its latest passes of enforce_quotas
    arrivals,          \* history: ip -> the authenticated requests of this origin and their clock readings
    dedup_hist,        \* history: fingerprint -> its passes of the dedup gate, and the passes of others since its latest
    inflight,          \* request id -> the /query requests received and not yet answered, each with its handler's position and locals
    lone_bucket,       \* one bucket that token_bucket_allow is called on directly, and the history of its checks
    filtered           \* the text sanitize_input was last called on directly, and what it returned

vars == << now, ip_buckets, key_buckets, key_daily_count, last_quota_reset,
           RECENT_HASHES, model_loaded, response, trace, backend_out, served,
           quota_passed, quota_times, arrivals, dedup_hist, inflight, lone_bucket,
           filtered >>

\* ---------------------------------------------------------------- bounds

\* /query requests in one behaviour
MaxRequests == 14

\* the clock stays within MaxSeconds seconds after a whole number of days
MaxSeconds == 10

\* whole days the clock passes in one behaviour
MaxDays == 1

\* ----------------------------------------------------------- dictionaries

EmptyDict == [k \in {} |-> 0]

\* d.get(k, default)
get(d, k, default) == IF k \in DOMAIN d THEN d[k] ELSE default

\* d[k] = v
put(d, k, v) == [x \in DOMAIN d \cup {k} |-> IF x = k THEN v ELSE d[x]]

min(a, b) == IF a <= b THEN a ELSE b

\* No text: the value of a field the response does not have.
Absent == <<"<absent>">>

\* ------------------------------------------------------------ the limiter

\* token_bucket_allow with the refill taken per second instead of per minute.
token_bucket_allow_per_second(bucket, burst, refill_per_minute, t) ==
    LET tokens0 == get(bucket, "tokens", burst * SECONDS_PER_MINUTE)
        ts == get(bucket, "ts", t)
        elapsed == t - ts
        tokens == min(burst * SECONDS_PER_MINUTE,
                      tokens0 + elapsed * refill_per_minute * SECONDS_PER_MINUTE)
    IN  IF tokens >= 1 * SECONDS_PER_MINUTE
        THEN [allowed |-> TRUE,
              bucket |-> put(put(bucket, "tokens", tokens - 1 * SECONDS_PER_MINUTE), "ts", t)]
        ELSE [allowed |-> FALSE,
              bucket |-> put(put(bucket, "tokens", tokens), "ts", t)]

\* token_bucket_allow at clock reading t.  bucket["tokens"] is held in units of
\* 1/SECONDS_PER_MINUTE token.  The result is the return value and the bucket
\* as the call leaves it.
token_bucket_allow(bucket, burst, refill_per_minute, t) ==
    LET tokens0 == get(bucket, "tokens", burst * SECONDS_PER_MINUTE)
        ts == get(bucket, "ts", t)
        elapsed == t - ts
        tokens == min(burst * SECONDS_PER_MINUTE, tokens0 + elapsed * refill_per_minute)
    IN  IF tokens >= 1 * SECONDS_PER_MINUTE
        THEN [allowed |-> TRUE,
              bucket |-> put(put(bucket, "tokens", tokens - 1 * SECONDS_PER_MINUTE), "ts", t)]
        ELSE [allowed |-> FALSE,
              bucket |-> put(put(bucket, "tokens", tokens), "ts", t)]

\* ---------------------------------------------------- the limiter's floats
\*
\* token_bucket_allow above computes in exact arithmetic.  Python computes
\* tokens, elapsed / 60.0 and the product in binary64 (float): each result is
\* rounded to MANTISSA_BITS significant binary digits, to nearest, ties to
\* even.  With elapsed a whole number of seconds of at least 0, a float of
\* the limiter is never negative and is a whole number of units of
\* 2^-FRAC_BITS (elapsed / 60.0 is 0 or at least 2^-6, whose last significant
\* digit is 2^-58; one digit more is kept for rounding a quotient).  A float
\* is held as that number of units, in three digits of base 2^LIMB_BITS, most
\* significant first.

\* binary64 has 53 significant binary digits
MANTISSA_BITS == 53

FRAC_BITS == 59

LIMB_BITS == 24

BASE == 2^LIMB_BITS

\* Three digits that may be out of 0..BASE-1, as three digits of base BASE.
Norm(d) ==
    LET d2 == d[2] + d[3] \div BASE
    IN  <<d[1] + d2 \div BASE, d2 % BASE, d[3] % BASE>>

\* float(k), for a natural number k
FromInt(k) == <<k * 2^(FRAC_BITS - 2 * LIMB_BITS), 0, 0>>

\* x + y, exactly
Add(x, y) == Norm(<<x[1] + y[1], x[2] + y[2], x[3] + y[3]>>)

\* x - y, exactly (x >= y)
Sub(x, y) == Norm(<<x[1] - y[1], x[2] - y[2], x[3] - y[3]>>)

\* x < y
Less(x, y) ==
    \/ x[1] < y[1]
    \/ x[1] = y[1] /\ x[2] < y[2]
    \/ x[1] = y[1] /\ x[2] = y[2] /\ x[3] < y[3]

\* n * x, exactly, for a natural number n below 2^7
Times(x, n) == Norm(<<x[1] * n, x[2] * n, x[3] * n>>)

\* The number of binary digits of the natural number k.
RECURSIVE BitLen(_)
BitLen(k) == IF k = 0 THEN 0 ELSE 1 + BitLen(k \div 2)

\* The number of significant binary digits of x.
Length(x) ==
    IF x[1] > 0 THEN 2 * LIMB_BITS + BitLen(x[1])
    ELSE IF x[2] > 0 THEN LIMB_BITS + BitLen(x[2])
    ELSE BitLen(x[3])

\* The exact value x (and more below its last digit if sticky) rounded to
\* MANTISSA_BITS significant digits, to nearest, ties to even.  The digits
\* dropped are fewer than LIMB_BITS: they are in the last digit of x.
Round(x, sticky) ==
    IF Length(x) <= MANTISSA_BITS THEN x
    ELSE LET p == 2^(Length(x) - MANTISSA_BITS)
             kept == x[3] \div p
             dropped == x[3] % p
             up == \/ 2 * dropped > p
                   \/ 2 * dropped = p /\ (sticky \/ kept % 2 = 1)
         IN  Norm(<<x[1], x[2], (kept + IF up THEN 1 ELSE 0) * p>>)

\* float(e) / float(d) for whole numbers e >= 0 and 0 < d < 2^7: the long
\* division of e * 2^FRAC_BITS by d, digit by digit, and its remainder.
fdiv(e, d) ==
    LET n1 == e * 2^(FRAC_BITS - 2 * LIMB_BITS)
        n2 == (n1 % d) * BASE
        n3 == (n2 % d) * BASE
    IN  Round(Norm(<<n1 \div d, n2 \div d, n3 \div d>>), n3 % d # 0)

\* x * float(n)
fmul(x, n) == Round(Times(x, n), FALSE)

\* x + y
fadd(x, y) == Round(Add(x, y), FALSE)

\* x - y (x >= y)
fsub(x, y) == Round(Sub(x, y), FALSE)

\* min(x, y)
fmin(x, y) == IF Less(y, x) THEN y ELSE x

\* token_bucket_allow at clock reading t (not before the bucket's ts), in
\* binary64 as Python computes it; bucket["tokens"] is a float.
token_bucket_allow_float(bucket_, burst, refill_per_minute, t) ==
    LET tokens0 == get(bucket_, "tokens", FromInt(burst))
        ts == get(bucket_, "ts", t)
        elapsed == t - ts
        tokens == fmin(FromInt(burst),
                       fadd(tokens0, fmul(fdiv(elapsed, SECONDS_PER_MINUTE), refill_per_minute)))
    IN  IF ~Less(tokens, FromInt(1))
        THEN [allowed |-> TRUE,
              bucket |-> put(put(bucket_, "tokens", fsub(tokens, FromInt(1))), "ts", t)]
        ELSE [allowed |-> FALSE,
              bucket |-> put(put(bucket_, "tokens", tokens), "ts", t)]

\* ------------------------------------------------------------- the quota

\* reset_daily_quotas_if_needed resetting from 24 hours on, not after them.
reset_daily_quotas_if_needed_at_24h(count, last, t) ==
    IF t - last >= DAY
    THEN [count |-> EmptyDict, last |-> t]
    ELSE [count |-> count, last |-> last]

\* reset_daily_quotas_if_needed at clock reading t: the counts and
\* _last_quota_reset as the call leaves them.
reset_daily_quotas_if_needed(count, last, t) ==
    IF t - last > DAY
    THEN [count |-> EmptyDict, last |-> t]
    ELSE [count |-> count, last |-> last]

\* enforce_quotas comparing with > instead of >=.
enforce_quotas_one_more(count, last, api_key, t) ==
    LET r == reset_daily_quotas_if_needed(count, last, t)
        c == put(r.count, api_key, get(r.count, api_key, 0))
    IN  IF c[api_key] > DAILY_QUOTA
        THEN [raised |-> TRUE, count |-> c, last |-> r.last]
        ELSE [raised |-> FALSE, count |-> put(c, api_key, c[api_key] + 1), last |-> r.last]

\* enforce_quotas counting the request before it compares.
enforce_quotas_count_first(count, last, api_key, t) ==
    LET r == reset_daily_quotas_if_needed(count, last, t)
        c == put(r.count, api_key, get(r.count, api_key, 0) + 1)
    IN  IF c[api_key] > DAILY_QUOTA
        THEN [raised |-> TRUE, count |-> c, last |-> r.last]
        ELSE [raised |-> FALSE, count |-> c, last |-> r.last]

\* enforce_quotas at clock reading t.  key_daily_count is a defaultdict(int):
\* reading a missing key stores 0 for it.
enforce_quotas(count, last, api_key, t) ==
    LET r == reset_daily_quotas_if_needed(count, last, t)
        c == put(r.count, api_key, get(r.count, api_key, 0))
    IN  IF c[api_key] >= DAILY_QUOTA
        THEN [raised |-> TRUE, count |-> c, last |-> r.last]
        ELSE [raised |-> FALSE, count |-> put(c, api_key, c[api_key] + 1), last |-> r.last]

\* --------------------------------------------------------------- the ring

\* A ring that lets one item more in before it drops any.
append_one_more(ring, h) ==
    IF Len(ring) > MAXLEN THEN Append(Tail(ring), h) ELSE Append(ring, h)

\* A full ring that drops its newest item instead of its oldest.
append_drop_newest(ring, h) ==
    IF Len(ring) >= MAXLEN THEN Append(SubSeq(ring, 1, Len(ring) - 1), h) ELSE Append(ring, h)

\* deque.append with maxlen: a full deque drops its leftmost item.
append(ring, h) ==
    IF Len(ring) >= MAXLEN THEN Append(Tail(ring), h) ELSE Append(ring, h)

\* h in RECENT_HASHES
contains(ring, h) == \E i \in DOMAIN ring : ring[i] = h

\* near_duplicate recording the fingerprint again when it finds it.
near_duplicate_reinsert(ring, txt) ==
    LET h == fingerprint(txt)
    IN  [dup |-> contains(ring, h), ring |-> append(ring, h)]

\* near_duplicate(txt): the return value and RECENT_HASHES as the call leaves it.
near_duplicate(ring, txt) ==
    LET h == fingerprint(txt)
    IN  IF contains(ring, h)
        THEN [dup |-> TRUE, ring |-> ring]
        ELSE [dup |-> FALSE, ring |-> append(ring, h)]

\* ------------------------------------------------------------ the backend

\* _maybe_load_model: loaded stays loaded; otherwise the import succeeds or not.
maybe_load_model(loaded, can_load) == loaded \/ can_load

MockSuffix == "<LF><LF>[Mock LLM]: This response was moderated and generated safely."

\* generate_text: the model's output when it is loaded (any text, or an
\* exception "raise"), the placeholder built from the prompt otherwise.
generate_text(prompt, loaded, model_says) ==
    IF loaded THEN model_says ELSE Append(prompt, MockSuffix)

\* ------------------------------------------------------------ the handler

\* Whether the request went through statement name (or: name is an item of tr).
went(tr, name) == \E i \in DOMAIN tr : tr[i] = name

\* req.headers.get("X-API-Key", "").strip()
strip_header(h) == IF h = " team-key-456 " THEN "team-key-456" ELSE h

\* The handler with the duplicate check ahead of the template check.
PIPELINE_dedup_first ==
    << "require_api_key", "ip_bucket", "key_bucket", "enforce_quotas",
       "normalize_text", "near_duplicate", "enforce_template", "sanitize_input",
       "generate_text", "redact_secrets" >>

\* The handler with the content filter ahead of the duplicate check.
PIPELINE_filter_first ==
    << "require_api_key", "ip_bucket", "key_bucket", "enforce_quotas",
       "normalize_text", "enforce_template", "sanitize_input", "near_duplicate",
       "generate_text", "redact_secrets" >>

\* The steps of query(), in the order of its statements.
PIPELINE ==
    << "require_api_key", "ip_bucket", "key_bucket", "enforce_quotas",
       "normalize_text", "enforce_template", "near_duplicate", "sanitize_input",
       "generate_text", "redact_secrets" >>

\* raise HTTPException(status_code, detail): the request ends here.
raise(c, status_code, detail) ==
    [c EXCEPT !.status = status_code, !.detail = detail]

\* api_key = require_api_key(req)
step_require_api_key(c) ==
    LET api_key == strip_header(c.header)
    IN  IF api_key = "" \/ api_key \notin API_KEYS
        THEN raise(c, 401, <<"Missing or invalid API key.">>)
        ELSE [c EXCEPT !.api_key = api_key]

\* The origin limiter: ip_buckets.setdefault(ip, {}) and token_bucket_allow.
step_ip_bucket(c) ==
    LET ip == IF c.client # "None" THEN c.client ELSE "unknown"
        t == c.clock + c.lag[1]
        r == token_bucket_allow(get(c.ip_buckets, ip, EmptyDict),
                                RATE_LIMIT_BURST, RATE_LIMIT_REFILL, t)
        c1 == [c EXCEPT !.ip = ip, !.clock = t, !.t_ip = t,
                        !.ip_buckets = put(c.ip_buckets, ip, r.bucket)]
    IN  IF ~r.allowed THEN raise(c1, 429, <<"IP rate limit exceeded.">>) ELSE c1

\* The credential limiter raising with the origin limiter's detail.
step_key_bucket_ip_detail(c) ==
    LET t == c.clock + c.lag[2]
        r == token_bucket_allow(get(c.key_buckets, c.api_key, EmptyDict),
                                RATE_LIMIT_BURST, RATE_LIMIT_REFILL, t)
        c1 == [c EXCEPT !.clock = t,
                        !.key_buckets = put(c.key_buckets, c.api_key, r.bucket)]
    IN  IF ~r.allowed THEN raise(c1, 429, <<"IP rate limit exceeded.">>) ELSE c1

\* The credential limiter: key_buckets.setdefault(api_key, {}) and token_bucket_allow.
step_key_bucket(c) ==
    LET t == c.clock + c.lag[2]
        r == token_bucket_allow(get(c.key_buckets, c.api_key, EmptyDict),
                                RATE_LIMIT_BURST, RATE_LIMIT_REFILL, t)
        c1 == [c EXCEPT !.clock = t,
                        !.key_buckets = put(c.key_buckets, c.api_key, r.bucket)]
    IN  IF ~r.allowed THEN raise(c1, 429, <<"API key rate limit exceeded.">>) ELSE c1

\* enforce_quotas(api_key)
step_enforce_quotas(c) ==
    LET t == c.clock + c.lag[3]
        r == enforce_quotas(c.key_daily_count, c.last_quota_reset, c.api_key, t)
        c1 == [c EXCEPT !.clock = t, !.key_daily_count = r.count,
                        !.last_quota_reset = r.last]
    IN  IF r.raised THEN raise(c1, 429, <<"Daily quota exceeded for this API key.">>) ELSE c1

\* prompt = normalize_text(q.prompt)
step_normalize_text(c) == [c EXCEPT !.prompt = normalize_text(c.q_prompt)]

\* if not enforce_template(prompt): raise
step_enforce_template(c) ==
    IF ~enforce_template(c.prompt)
    THEN raise(c, 400, <<"Prompt must start with an approved prefix (Task:/Question:/User:/Input:/Query:).">>)
    ELSE c

\* if near_duplicate(prompt): raise
step_near_duplicate(c) ==
    LET r == near_duplicate(c.RECENT_HASHES, c.prompt)
        c1 == [c EXCEPT !.RECENT_HASHES = r.ring]
    IN  IF r.dup THEN raise(c1, 429, <<"Duplicate/near-duplicate prompt throttled.">>) ELSE c1

\* The content filter's reason computed and never raised.
step_sanitize_input_unchecked(c) == c

\* A content rejection that gives the quota unit of the request back.
step_sanitize_input_refund(c) ==
    LET reason == sanitize_input(c.prompt)
        refunded == put(c.key_daily_count, c.api_key, c.key_daily_count[c.api_key] - 1)
    IN  IF reason # None
        THEN raise([c EXCEPT !.key_daily_count = refunded], 400, <<"Blocked: ">> \o reason)
        ELSE c

\* reason = sanitize_input(prompt); if reason is not None: raise
step_sanitize_input(c) ==
    LET reason == sanitize_input(c.prompt)
    IN  IF reason # None THEN raise(c, 400, <<"Blocked: ">> \o reason) ELSE c

\* print("[ALLOW] ...") and text = generate_text(prompt.strip(), ...); an
\* exception of the model leaves the handler as a 500.
step_generate_text(c) ==
    LET loaded == maybe_load_model(c.model_loaded, c.can_load)
        text == generate_text(strip(c.prompt), loaded, c.model_says)
        c1 == [c EXCEPT !.model_loaded = loaded,
                        !.log = Append(c.log, <<"[ALLOW]", c.ip, c.api_key>>),
                        !.calls = c.calls + 1]
    IN  IF text = <<"raise">>
        THEN raise(c1, 500, <<"Internal Server Error">>)
        ELSE [c1 EXCEPT !.text = text, !.generated = text]

\* The placeholder's text returned as it is: only the model's output is redacted.
step_redact_secrets_model_only(c) ==
    LET text == IF went(c.generated, MockSuffix) THEN c.text ELSE redact_secrets(c.text)
    IN  [c EXCEPT !.text = text, !.result = text, !.status = 200]

\* text = redact_secrets(text); return {"result": text}
step_redact_secrets(c) ==
    [c EXCEPT !.text = redact_secrets(c.text), !.result = redact_secrets(c.text),
              !.status = 200]

step(name, c) ==
    CASE name = "require_api_key" -> step_require_api_key(c)
      [] name = "ip_bucket" -> step_ip_bucket(c)
      [] name = "key_bucket" -> step_key_bucket(c)
      [] name = "enforce_quotas" -> step_enforce_quotas(c)
      [] name = "normalize_text" -> step_normalize_text(c)
      [] name = "enforce_template" -> step_enforce_template(c)
      [] name = "near_duplicate" -> step_near_duplicate(c)
      [] name = "sanitize_input" -> step_sanitize_input(c)
      [] name = "generate_text" -> step_generate_text(c)
      [] name = "redact_secrets" -> step_redact_secrets(c)

\* The statements i..j of query(): an exception ends it, and nothing of the
\* rest runs.
RECURSIVE query(_, _, _)
query(c, i, j) ==
    IF i > j \/ c.status # 0 THEN c
    ELSE query(step(PIPELINE[i], [c EXCEPT !.trace = Append(c.trace, PIPELINE[i])]), i + 1, j)

\* The handler's locals at its first statement.
Received(client, header, prompt, lag) ==
    [ client |-> client, header |-> header, q_prompt |-> prompt, lag |-> lag,
      can_load |-> FALSE, model_says |-> <<>>,
      clock |-> now, t_ip |-> 0, ip |-> "", api_key |-> "", prompt |-> <<>>, text |-> Absent,
      ip_buckets |-> ip_buckets, key_buckets |-> key_buckets,
      key_daily_count |-> key_daily_count, last_quota_reset |-> last_quota_reset,
      RECENT_HASHES |-> RECENT_HASHES, model_loaded |-> model_loaded,
      status |-> 0, detail |-> <<>>, result |-> Absent, generated |-> Absent,
      trace |-> <<>>, log |-> <<>>, calls |-> 0 ]

\* The latest n items of a sequence.
latest(s, n) == IF Len(s) <= n THEN s ELSE SubSeq(s, Len(s) - n + 1, Len(s))

\* The stores, the response and the histories once the handler has ended with locals c.
Respond(c) ==
    LET passed == went(c.trace, "normalize_text")
        since == IF c.last_quota_reset # last_quota_reset THEN EmptyDict ELSE quota_passed
    IN  /\ now' = c.clock
        /\ ip_buckets' = c.ip_buckets
        /\ key_buckets' = c.key_buckets
        /\ key_daily_count' = c.key_daily_count
        /\ last_quota_reset' = c.last_quota_reset
        /\ RECENT_HASHES' = c.RECENT_HASHES
        /\ model_loaded' = c.model_loaded
        /\ response' = [status |-> c.status, detail |-> c.detail, result |-> c.result,
                        ip |-> c.ip, api_key |-> c.api_key, prompt |-> c.prompt,
                        log |-> c.log, calls |-> c.calls]
        /\ trace' = c.trace
        /\ backend_out' = c.generated
        /\ served' = served + 1
        /\ quota_passed' =
               IF passed THEN put(since, c.api_key, get(since, c.api_key, 0) + 1)
               ELSE since
        /\ quota_times' =
               IF passed
               THEN put(quota_times, c.api_key,
                        latest(Append(get(quota_times, c.api_key, <<>>), c.clock),
                               DAILY_QUOTA + 1))
               ELSE quota_times
        /\ arrivals' =
               IF went(c.trace, "ip_bucket")
               THEN put(arrivals, c.ip,
                        IF c.ip \in DOMAIN arrivals
                        THEN [n |-> arrivals[c.ip].n + 1,
                              first |-> arrivals[c.ip].first,
                              last |-> c.t_ip,
                              ordered |-> arrivals[c.ip].ordered /\ arrivals[c.ip].last <= c.t_ip]
                        ELSE [n |-> 1, first |-> c.t_ip, last |-> c.t_ip, ordered |-> TRUE])
               ELSE arrivals
        /\ dedup_hist' =
               IF went(c.trace, "sanitize_input")
               THEN LET h == fingerprint(c.prompt)
                    IN  [x \in DOMAIN dedup_hist \cup {h} |->
                           IF x = h
                           THEN [age |-> 0, passes |-> min(2, get(dedup_hist, h, [passes |-> 0]).passes + 1)]
                           ELSE [age |-> min(MAXLEN, dedup_hist[x].age + 1),
                                 passes |-> dedup_hist[x].passes]]
               ELSE dedup_hist

\* What the backend may do for one request: the import of the model succeeds
\* or not, and the model returns some text or raises.
ModelOutputs == {<<"translate">>, <<"password=abc", " ", "api_key=AbCdEfGh12345">>, <<"raise">>}

\* POST /query: the whole handler (it has no await: nothing interleaves with
\* it).  The backend's behaviour is drawn when the handler calls it.
Query(client, header, prompt, lag) ==
    /\ served < MaxRequests
    /\ (now % DAY) + lag[1] + lag[2] + lag[3] <= MaxSeconds
    /\ LET a == query(Received(client, header, prompt, lag), 1, 8)
       IN  IF a.status # 0
           THEN Respond(a)
           ELSE \E can_load \in BOOLEAN, model_says \in ModelOutputs :
                    Respond(query([a EXCEPT !.can_load = can_load,
                                            !.model_says = model_says], 9, 10))
    /\ UNCHANGED << inflight, lone_bucket, filtered >>

\* Time passes between requests: d seconds.
Tick(d) ==
    /\ now + d <= MaxDays * DAY + MaxSeconds
    /\ (now + d) % DAY <= MaxSeconds
    /\ now' = now + d
    /\ UNCHANGED << ip_buckets, key_buckets, key_daily_count, last_quota_reset,
                    RECENT_HASHES, model_loaded, response, trace, backend_out,
                    served, quota_passed, quota_times, arrivals, dedup_hist,
                    inflight, lone_bucket, filtered >>

\* The wall clock is set back between requests (time.time() is not monotonic).
ClockSetBack(d) ==
    /\ now - d >= 0
    /\ now' = now - d
    /\ UNCHANGED << ip_buckets, key_buckets, key_daily_count, last_quota_reset,
                    RECENT_HASHES, model_loaded, response, trace, backend_out,
                    served, quota_passed, quota_times, arrivals, dedup_hist,
                    inflight, lone_bucket, filtered >>

\* ------------------------------------------------- requests in flight

\* A handler that gives the event loop the control after each statement.
resume_until_each_statement(i) == i

\* The last statement the coroutine of query() runs once the event loop
\* resumes it at statement i: query() is an async def without an await (the
\* backend call is a plain call too), so it runs to its last statement.
resume_until(i) == Len(PIPELINE)

\* The module-level names as the handler finds them when it runs.
Load(c) ==
    [c EXCEPT !.clock = now, !.ip_buckets = ip_buckets, !.key_buckets = key_buckets,
              !.key_daily_count = key_daily_count, !.last_quota_reset = last_quota_reset,
              !.RECENT_HASHES = RECENT_HASHES, !.model_loaded = model_loaded]

\* d without its key k
remove(d, k) == [x \in DOMAIN d \ {k} |-> d[x]]

\* A POST /query is received: the server reads its body and schedules the
\* handler, while other requests are in flight.
Arrive(id, client, header, prompt) ==
    /\ id \notin DOMAIN inflight
    /\ inflight' = put(inflight, id,
                       [pc |-> 1, client |-> client, header |-> header,
                        q_prompt |-> prompt, locals |-> {}])
    /\ UNCHANGED << now, ip_buckets, key_buckets, key_daily_count, last_quota_reset,
                    RECENT_HASHES, model_loaded, response, trace, backend_out,
                    served, quota_passed, quota_times, arrivals, dedup_hist, lone_bucket,
                    filtered >>

\* The event loop runs the handler of request id from where it stands until
\* it gives the control back: at its end (the request is answered), or where
\* it is suspended.
Resume(id) ==
    /\ id \in DOMAIN inflight
    /\ UNCHANGED << lone_bucket, filtered >>
    /\ \E can_load \in BOOLEAN, model_says \in ModelOutputs :
          LET r == inflight[id]
              c == IF r.locals = {}
                   THEN Received(r.client, r.header, r.q_prompt, <<0, 0, 0>>)
                   ELSE Load(CHOOSE x \in r.locals : TRUE)
              j == resume_until(r.pc)
              a == query([c EXCEPT !.can_load = can_load, !.model_says = model_says],
                         r.pc, j)
          IN  IF a.status # 0 \/ j >= Len(PIPELINE)
              THEN /\ Respond(a)
                   /\ inflight' = remove(inflight, id)
              ELSE /\ now' = a.clock
                   /\ ip_buckets' = a.ip_buckets
                   /\ key_buckets' = a.key_buckets
                   /\ key_daily_count' = a.key_daily_count
                   /\ last_quota_reset' = a.last_quota_reset
                   /\ RECENT_HASHES' = a.RECENT_HASHES
                   /\ model_loaded' = a.model_loaded
                   /\ inflight' = [inflight EXCEPT ![id].pc = j + 1, ![id].locals = {a}]
                   /\ UNCHANGED << response, trace, backend_out, served, quota_passed,
                                   quota_times, arrivals, dedup_hist >>

\* ------------------------------------------------------- one bucket alone

\* The history of one bucket after a check with result r: whether the check
\* was allowed, the reading at which the bucket held 0 tokens with only denied
\* checks since (-1: none), before and after this check.
Checked(h, r, zero) ==
    [store |-> r.bucket, allowed |-> r.allowed, zero_before |-> h.zero_at,
     zero_at |-> IF r.bucket["tokens"] = zero THEN now
                 ELSE IF r.allowed THEN -1 ELSE h.zero_at]

\* One call of token_bucket_allow(bucket, RATE_LIMIT_BURST, RATE_LIMIT_REFILL)
\* at the clock reading now: computed in exact arithmetic and in binary64.
Check ==
    /\ lone_bucket' =
          [checks |-> lone_bucket.checks + 1, t |-> now,
           exact |-> Checked(lone_bucket.exact,
                             token_bucket_allow(lone_bucket.exact.store,
                                                RATE_LIMIT_BURST, RATE_LIMIT_REFILL, now),
                             0),
           float |-> Checked(lone_bucket.float,
                             token_bucket_allow_float(lone_bucket.float.store,
                                                      RATE_LIMIT_BURST, RATE_LIMIT_REFILL, now),
                             FromInt(0))]
    /\ UNCHANGED << now, ip_buckets, key_buckets, key_daily_count, last_quota_reset,
                    RECENT_HASHES, model_loaded, response, trace, backend_out,
                    served, quota_passed, quota_times, arrivals, dedup_hist, inflight,
                    filtered >>

\* ------------------------------------------------- the content filter alone

\* One call of sanitize_input(user_text).
Sanitize(user_text) ==
    /\ filtered' = [called |-> TRUE, text |-> user_text,
                    reason |-> sanitize_input(user_text)]
    /\ UNCHANGED << now, ip_buckets, key_buckets, key_daily_count, last_quota_reset,
                    RECENT_HASHES, model_loaded, response, trace, backend_out,
                    served, quota_passed, quota_times, arrivals, dedup_hist, inflight,
                    lone_bucket >>

\* The state once the module is imported: empty stores, _last_quota_reset = time.time().
Init ==
    /\ now = 0
    /\ ip_buckets = EmptyDict
    /\ key_buckets = EmptyDict
    /\ key_daily_count = EmptyDict
    /\ last_quota_reset = 0
    /\ RECENT_HASHES = <<>>
    /\ model_loaded = FALSE
    /\ response = [status |-> 0, detail |-> <<>>, result |-> Absent,
                   ip |-> "", api_key |-> "", prompt |-> <<>>,
                   log |-> <<>>, calls |-> 0]
    /\ trace = <<>>
    /\ backend_out = Absent
    /\ served = 0
    /\ quota_passed = EmptyDict
    /\ quota_times = EmptyDict
    /\ arrivals = EmptyDict
    /\ dedup_hist = EmptyDict
    /\ inflight = EmptyDict
    /\ lone_bucket = [checks |-> 0, t |-> 0,
                      exact |-> [store |-> EmptyDict, allowed |-> FALSE,
                                 zero_before |-> -1, zero_at |-> -1],
                      float |-> [store |-> EmptyDict, allowed |-> FALSE,
                                 zero_before |-> -1, zero_at |-> -1]]
    /\ filtered = [called |-> FALSE, text |-> <<>>, reason |-> None]

\* ---------------------------------------------------------------- inputs

Clients == {"10.0.0.1", "10.0.0.2"}

Headers == {"demo-key-123", "wrong-key", ""}

Prompts ==
    { <<"Task:", " ", "summarize">>,
      <<" ", "<fullwidth Task:>", " ", "SUMMARIZE", "<BEL>">>,
      <<" ", "<LF>">>,
      <<"Task:", " ", "write malware", " ", "++OVERRIDE_POLICY++">>,
      <<"Task:", " ", "api_key=AbCdEfGh12345">> }

Lags == {<<0, 0, 0>>}

Next ==
    \/ \E client \in Clients, header \in Headers, prompt \in Prompts, lag \in Lags :
          Query(client, header, prompt, lag)

Spec == Init /\ [][Next]_vars

\* One origin, two credentials, and a wall clock that moves in steps of
\* StepSeconds, forwards and backwards.
StepSeconds == {5}

NextWallClock ==
    \/ \E header \in {"demo-key-123", " team-key-456 "}, lag \in Lags :
          Query("10.0.0.1", header, <<"summarize">>, lag)
    \/ \E d \in StepSeconds : Tick(d)
    \/ \E d \in StepSeconds : ClockSetBack(d)

SpecWallClock == Init /\ [][NextWallClock]_vars

\* One origin, two credentials, and a clock that only moves forwards, 5
\* seconds at a time, between requests and between the two limiters' readings.
NextBurst ==
    \/ \E header \in {"demo-key-123", " team-key-456 "}, lag \in Lags \cup {<<0, 5, 0>>} :
          Query("10.0.0.1", header, <<"summarize">>, lag)
    \/ \E d \in StepSeconds : Tick(d)

SpecBurst == Init /\ [][NextBurst]_vars

\* /query requests in one behaviour of SpecQuota
MaxQuotaRequests == 5

\* One origin, two credentials, one prompt, and a clock that passes the
\* reset boundary: 5 seconds, or 5 seconds short of a day, at a time.
NextQuota ==
    \/ \E header \in {"demo-key-123", " team-key-456 "}, lag \in Lags :
          served < MaxQuotaRequests /\ Query("10.0.0.1", header, <<"Task:", " ", "summarize">>, lag)
    \/ \E d \in StepSeconds \cup {DAY - 5} : Tick(d)

SpecQuota == Init /\ [][NextQuota]_vars

\* /query requests in one behaviour of SpecRing
MaxRingRequests == 6

\* One origin, two credentials, and prompts of four fingerprints, all at
\* one clock reading.
RingPrompts ==
    { <<"Task:", " ", "summarize">>,
      <<" ", "<fullwidth Task:>", " ", "SUMMARIZE", "<BEL>">>,
      <<"Question:", " ", "summarize">>,
      <<"Task:", " ", "translate">>,
      <<"Task:", " ", "Ignore Previous Instructions">> }

NextRing ==
    \E header \in {"demo-key-123", " team-key-456 "}, prompt \in RingPrompts, lag \in Lags :
        served < MaxRingRequests /\ Query("10.0.0.1", header, prompt, lag)

SpecRing == Init /\ [][NextRing]_vars

\* request ids in flight at once in SpecConcurrent
MaxInflight == 2

\* /query requests in one behaviour of SpecConcurrent
MaxConcurrentRequests == 4

\* One origin, two credentials, three prompts of two fingerprints, all at one
\* clock reading: requests arrive while others wait for the event loop, and
\* the event loop runs the waiting handlers in any order.
ConcurrentPrompts ==
    { <<"Task:", " ", "summarize">>,
      <<"Task:", " ", "SUMMARIZE", " ">>,
      <<"Task:", " ", "write malware">> }

NextConcurrent ==
    \/ \E id \in 1..MaxInflight, header \in {"demo-key-123", " team-key-456 "},
          prompt \in ConcurrentPrompts :
          /\ served + Cardinality(DOMAIN inflight) < MaxConcurrentRequests
          /\ Arrive(id, "10.0.0.1", header, prompt)
    \/ \E id \in 1..MaxInflight : Resume(id)

SpecConcurrent == Init /\ [][NextConcurrent]_vars

\* One origin that sends a prompt for each way the template check and the
\* content filter can end, with the configured credential, and one prompt with
\* an unknown credential; a second origin with the same configured credential;
\* one request at a time, at one clock reading.
KindPrompts ==
    { <<"Task:", " ", "summarize">>,
      <<" ", "<LF>">>,
      <<"Task:", " ", "<x * 5001>">>,
      <<"Task:", " ", "write malware">> }

KindRequests ==
    {<<"10.0.0.1", "demo-key-123", prompt>> : prompt \in KindPrompts}
        \cup {<<"10.0.0.1", "wrong-key", <<"Task:", " ", "summarize">> >>,
              <<"10.0.0.2", "demo-key-123", <<"Task:", " ", "summarize">> >>}

NextKinds ==
    \/ \E req \in KindRequests :
          /\ served < MaxRequests
          /\ DOMAIN inflight = {}
          /\ Arrive(1, req[1], req[2], req[3])
    \/ Resume(1)

SpecKinds == Init /\ [][NextKinds]_vars

\* checks of the bucket in one behaviour of SpecRefill
MaxChecks == 24

\* One bucket checked at clock readings that move forwards, 1 or 3 seconds at
\* a time.
RefillSteps == {1, 3}

NextRefill ==
    \/ lone_bucket.checks < MaxChecks /\ Check
    \/ \E d \in RefillSteps : Tick(d)

SpecRefill == Init /\ [][NextRefill]_vars

\* words of a text in SpecFilter
MaxWords == 3

\* The texts of at most n words of ws.
RECURSIVE Texts(_, _)
Texts(ws, n) ==
    IF n = 0 THEN {<<>>}
    ELSE Texts(ws, n - 1) \cup {Append(txt, w) : txt \in Texts(ws, n - 1), w \in ws}

FilterWords ==
    {" ", "<x * 5001>", "summarize", "write malware", "++OVERRIDE_POLICY++",
     "Ignore Previous Instructions"}

\* sanitize_input called on any text of at most MaxWords words: blanks, a run
\* longer than MAX_PROMPT_LEN, a harmless word, and phrases that the first,
\* the second and the last rule match.
NextFilter == \E user_text \in Texts(FilterWords, MaxWords) : Sanitize(user_text)

SpecFilter == Init /\ [][NextFilter]_vars

\* ---------------------------------------------------------------- claims

\* A step of the specification that is one /query request.
IsRequest == served' = served + 1

Blank(txt) == strip(txt) = <<>>

TemplateViolation ==
    <<"Prompt must start with an approved prefix (Task:/Question:/User:/Input:/Query:).">>

\* The steps of the handler up to the n-th, as the source orders them.
UpTo(n) ==
    SubSeq(<<"require_api_key", "ip_bucket", "key_bucket", "enforce_quotas",
             "normalize_text", "enforce_template", "near_duplicate", "sanitize_input",
             "generate_text", "redact_secrets">>, 1, n)

\* C1: fail-fast.  A request rejected by a gate went through no later
\* statement of the handler, and left the stores of the later gates as they
\* were: a 401 changes no bucket, count or ring entry; an origin 429 changes
\* no credential bucket, count or ring entry; a credential 429 changes no
\* count or ring entry; a quota 429 and a template 400 change no ring entry;
\* a duplicate 429 and a content 400 call no backend.
C1_FailFast ==
    [][IsRequest =>
        /\ response'.status \in {400, 401, 429} =>
              /\ response'.calls = 0
              /\ UNCHANGED model_loaded
        /\ response'.status = 401 =>
              /\ trace' = UpTo(1)
              /\ UNCHANGED << ip_buckets, key_buckets, key_daily_count,
                              last_quota_reset, RECENT_HASHES >>
        /\ response'.detail = <<"IP rate limit exceeded.">> =>
              /\ trace' = UpTo(2)
              /\ UNCHANGED << key_buckets, key_daily_count, last_quota_reset,
                              RECENT_HASHES >>
        /\ response'.detail = <<"API key rate limit exceeded.">> =>
              /\ trace' = UpTo(3)
              /\ UNCHANGED << key_daily_count, last_quota_reset, RECENT_HASHES >>
        /\ response'.detail = <<"Daily quota exceeded for this API key.">> =>
              /\ trace' = UpTo(4)
              /\ UNCHANGED RECENT_HASHES
        /\ response'.detail = TemplateViolation =>
              /\ trace' = UpTo(6)
              /\ UNCHANGED RECENT_HASHES
        /\ response'.detail = <<"Duplicate/near-duplicate prompt throttled.">> =>
              trace' = UpTo(7)
        /\ (response'.status = 400 /\ response'.detail # TemplateViolation) =>
              /\ Head(response'.detail) = "Blocked: "
              /\ trace' = UpTo(8)
    ]_vars

\* C1 witness: an origin-rate-limited request arrived when the credential
\* buckets, the counts and the ring all held something it could have changed.
C1_Witness ==
    /\ response.detail = <<"IP rate limit exceeded.">>
    /\ DOMAIN key_buckets # {}
    /\ DOMAIN key_daily_count # {}
    /\ RECENT_HASHES # <<>>

\* C2: strictly linear admission.  A request answered 200 went through the
\* ten statements in the handler's order, with a configured credential, a
\* template-conforming prompt and no content-filter reason; the backend is
\* called at most once per request, and only after the eight gates before it.
C2_LinearAdmission ==
    /\ response.calls <= 1
    /\ response.calls = 1 =>
          /\ SubSeq(trace, 1, 9) = UpTo(9)
          /\ response.api_key \in API_KEYS
          /\ enforce_template(response.prompt)
          /\ sanitize_input(response.prompt) = None
          /\ contains(RECENT_HASHES, fingerprint(response.prompt))
    /\ response.status = 200 =>
          /\ trace = UpTo(10)
          /\ response.calls = 1

\* C2 witness: a request was answered 200.
C2_Witness == response.status = 200 /\ response.calls = 1

\* C9 (as claimed): a request with a blank prompt that got past
\* authentication, both limiters and the quota is answered 400 with the
\* empty-prompt detail of the content filter.
C9_BlankIsEmptyPrompt ==
    (went(trace, "normalize_text") /\ Blank(response.prompt)) =>
        /\ response.status = 400
        /\ response.detail = <<"Blocked: ", "Empty prompt.", "">>

\* C10: the result of a 200 is the redactor's output for what the backend
\* returned to this request (model or placeholder), redaction being the
\* handler's last step after the backend call, and a response other than
\* 200 has no result.
C10_RedactedResult ==
    /\ response.status = 200 =>
          /\ backend_out # Absent
          /\ response.result = redact_secrets(backend_out)
          /\ trace[Len(trace) - 1] = "generate_text"
          /\ trace[Len(trace)] = "redact_secrets"
    /\ response.status # 200 => response.result = Absent

\* C10 witness: a 200 whose backend output held a credential-shaped run.
C10_Witness ==
    /\ response.status = 200
    /\ \E i \in DOMAIN backend_out : SECRET_RX(backend_out[i])

InRange(bucket) ==
    /\ bucket["tokens"] >= 0
    /\ bucket["tokens"] <= RATE_LIMIT_BURST * SECONDS_PER_MINUTE

\* C3 (as claimed): every bucket, origin-keyed or credential-keyed, holds
\* between 0 and burst tokens, whatever the clock read at the checks.
C3_TokensInRange ==
    /\ \A ip \in DOMAIN ip_buckets : InRange(ip_buckets[ip])
    /\ \A k \in DOMAIN key_buckets : InRange(key_buckets[k])

\* The seconds that refill one token.
REFILL_SECONDS == SECONDS_PER_MINUTE \div RATE_LIMIT_REFILL

\* The last request was the 13th authenticated request of origin ip.
Thirteenth(ip) ==
    /\ ip \in DOMAIN arrivals
    /\ arrivals[ip].n = RATE_LIMIT_BURST + 1
    /\ response.ip = ip

\* C4 (as claimed): the 13th of 13 authenticated requests of one fresh
\* origin whose arrivals lie within one minute is answered 429.
C4_ThirteenthWithinAMinute ==
    \A ip \in DOMAIN arrivals :
        (Thirteenth(ip) /\ arrivals[ip].ordered
            /\ arrivals[ip].last - arrivals[ip].first < SECONDS_PER_MINUTE)
        => response.status = 429

\* C4 (amended): the 13th of 13 authenticated requests of one fresh origin
\* whose clock readings do not decrease and lie within less than the time
\* that refills one token (60 / 6 = 10 seconds) is answered 429 by the
\* origin limiter.
C4_ThirteenthWithinRefill ==
    \A ip \in DOMAIN arrivals :
        (Thirteenth(ip) /\ arrivals[ip].ordered
            /\ arrivals[ip].last - arrivals[ip].first < REFILL_SECONDS)
        => /\ response.status = 429
           /\ response.detail = <<"IP rate limit exceeded.">>

\* C4 witness: a 13th request 5 seconds after the first, refused by the
\* origin limiter.
C4_Witness ==
    \E ip \in DOMAIN arrivals :
        /\ Thirteenth(ip)
        /\ arrivals[ip].last - arrivals[ip].first = 5
        /\ response.detail = <<"IP rate limit exceeded.">>

QuotaExceeded == <<"Daily quota exceeded for this API key.">>

\* C5 (amended): between two resets no credential passes the quota gate
\* more than DAILY_QUOTA times: a quota check is refused (429) exactly when
\* DAILY_QUOTA requests of the credential have passed since the last reset.
C5_QuotaPerResetWindow ==
    /\ \A k \in DOMAIN quota_passed : quota_passed[k] <= DAILY_QUOTA
    /\ response.detail = QuotaExceeded =>
          /\ response.status = 429
          /\ get(quota_passed, response.api_key, 0) = DAILY_QUOTA
    /\ (went(trace, "enforce_quotas") /\ response.detail # QuotaExceeded) =>
          /\ went(trace, "normalize_text")
          /\ get(quota_passed, response.api_key, 0) >= 1

\* C5 (as claimed): no credential passes the quota gate more than
\* DAILY_QUOTA times within any 24 hours: whenever a credential has
\* DAILY_QUOTA + 1 passes, the latest is at least 24 hours after the first of them.
C5_QuotaPerSlidingDay ==
    \A k \in DOMAIN quota_times :
        Len(quota_times[k]) = DAILY_QUOTA + 1 =>
            quota_times[k][DAILY_QUOTA + 1] - quota_times[k][1] >= DAY

\* C5 witness: after a reset, a credential is refused at the quota gate.
C5_Witness ==
    /\ response.detail = QuotaExceeded
    /\ last_quota_reset > 0

\* C6: the count of a credential is the number of its requests that passed
\* the quota gate since the last reset; a passing request adds one to its
\* own count and nothing to another's, and a refused one changes no count.
C6_QuotaExact ==
    /\ [](\A k \in API_KEYS : get(key_daily_count, k, 0) = get(quota_passed, k, 0))
    /\ [][(IsRequest /\ went(trace', "enforce_quotas")) =>
            LET k == response'.api_key
                reset == last_quota_reset' # last_quota_reset
                before(x) == IF reset THEN 0 ELSE get(key_daily_count, x, 0)
            IN  /\ response'.detail = QuotaExceeded =>
                      /\ ~reset
                      /\ UNCHANGED key_daily_count
                /\ response'.detail # QuotaExceeded =>
                      /\ key_daily_count'[k] = before(k) + 1
                      /\ \A x \in API_KEYS \ {k} : get(key_daily_count', x, 0) = before(x)
         ]_vars

\* C6 witness: a refused request while the other credential has a count too.
C6_Witness ==
    /\ response.detail = QuotaExceeded
    /\ \E k \in DOMAIN key_daily_count :
          k # response.api_key /\ key_daily_count[k] >= 1 /\ key_daily_count[k] < DAILY_QUOTA + 1
    /\ key_daily_count[response.api_key] = DAILY_QUOTA

Duplicate == <<"Duplicate/near-duplicate prompt throttled.">>

\* C7: a prompt is refused as a duplicate exactly when its fingerprint
\* passed the dedup gate before and fewer than MAXLEN other fingerprints
\* have passed since: the same normalized prompt twice in a row passes and
\* then is refused, and after MAXLEN others it passes again.
C7_DedupRoundTrip ==
    [][(IsRequest /\ went(trace', "near_duplicate")) =>
          LET h == fingerprint(response'.prompt)
          IN  /\ response'.detail = Duplicate <=>
                    (h \in DOMAIN dedup_hist /\ dedup_hist[h].age < MAXLEN)
              /\ response'.detail = Duplicate => response'.status = 429
      ]_vars

\* C7 witness: a fingerprint has passed the dedup gate a second time, just now.
C7_Witness ==
    \E h \in DOMAIN dedup_hist : dedup_hist[h].passes = 2 /\ dedup_hist[h].age = 0

\* C8: the ring never holds more than MAXLEN fingerprints, it holds them
\* oldest first, and an insertion into a full ring drops its oldest item and
\* no other.
C8_RingFifo ==
    /\ [](/\ Len(RECENT_HASHES) <= MAXLEN
          /\ \A i, j \in DOMAIN RECENT_HASHES :
                i < j => dedup_hist[RECENT_HASHES[i]].age > dedup_hist[RECENT_HASHES[j]].age)
    /\ [][(IsRequest /\ RECENT_HASHES' # RECENT_HASHES) =>
            LET h == fingerprint(response'.prompt)
            IN  RECENT_HASHES' =
                    IF Len(RECENT_HASHES) = MAXLEN
                    THEN Append(Tail(RECENT_HASHES), h)
                    ELSE Append(RECENT_HASHES, h)
         ]_vars

\* C8 witness: the ring is full and a fingerprint that passed has been dropped.
C8_Witness ==
    /\ Len(RECENT_HASHES) = MAXLEN
    /\ \E h \in DOMAIN dedup_hist : ~contains(RECENT_HASHES, h)

\* The tokens taken from the buckets of one limiter and not refilled, in
\* units of 1/SECONDS_PER_MINUTE token.
RECURSIVE Consumed(_)
Consumed(buckets) ==
    IF DOMAIN buckets = {} THEN 0
    ELSE LET k == CHOOSE x \in DOMAIN buckets : TRUE
         IN  (RATE_LIMIT_BURST * SECONDS_PER_MINUTE - buckets[k]["tokens"])
                 + Consumed(remove(buckets, k))

\* The stores the gates change.
stores == << ip_buckets, key_buckets, key_daily_count, last_quota_reset, RECENT_HASHES >>

\* The place of the backend call among the statements of the handler.
BackendCall == CHOOSE i \in DOMAIN PIPELINE : PIPELINE[i] = "generate_text"

\* C11: with requests in flight concurrently, a request waits only before
\* its handler's first statement or at the backend call, never inside the
\* gate sequence; every change of a bucket, a count or the ring is the whole
\* gate sequence of one request, run from its first statement in one step
\* (so the stores are those of the serial execution in the order the
\* handlers ran); no token consumption is lost (at one clock reading, each
\* answered request of an origin took one token of its bucket until it was
\* empty, and each request past the origin limiter took one of a credential
\* bucket), no quota increment is lost, and no fingerprint is in the ring twice.
C11_GatesAtomic ==
    /\ [](/\ \A id \in DOMAIN inflight : inflight[id].pc \in {1, BackendCall}
          /\ \A ip \in DOMAIN ip_buckets :
                /\ ip \in DOMAIN arrivals
                /\ ip_buckets[ip]["tokens"] =
                       IF arrivals[ip].n >= RATE_LIMIT_BURST THEN 0
                       ELSE (RATE_LIMIT_BURST - arrivals[ip].n) * SECONDS_PER_MINUTE
                /\ arrivals[ip].n <= RATE_LIMIT_BURST => Consumed(key_buckets) = Consumed(ip_buckets)
          /\ \A k \in API_KEYS : get(key_daily_count, k, 0) = get(quota_passed, k, 0)
          /\ \A i, j \in DOMAIN RECENT_HASHES : i # j => RECENT_HASHES[i] # RECENT_HASHES[j]
          /\ Len(RECENT_HASHES) =
                Cardinality({h \in DOMAIN dedup_hist : dedup_hist[h].age < MAXLEN}))
    /\ [][stores' # stores =>
            /\ IsRequest
            /\ \E id \in DOMAIN inflight :
                  /\ id \notin DOMAIN inflight'
                  /\ inflight[id].pc = 1
                  /\ trace'[1] = "require_api_key"
         ]_vars

\* C11 witness: a request was answered as a duplicate while another one was
\* in flight, after requests of both credentials had been counted.
C11_Witness ==
    /\ response.detail = Duplicate
    /\ DOMAIN inflight # {}
    /\ \A k \in API_KEYS : get(key_daily_count, k, 0) >= 1

\* What a bucket holds at clock reading t before a token is taken: its
\* tokens and the refill since its last check, at most the burst.
Refilled(bucket, t) ==
    min(RATE_LIMIT_BURST * SECONDS_PER_MINUTE,
        get(bucket, "tokens", RATE_LIMIT_BURST * SECONDS_PER_MINUTE)
            + (t - get(bucket, "ts", t)) * RATE_LIMIT_REFILL)

LaterGateRejection ==
    { <<"API key rate limit exceeded.">>, QuotaExceeded, TemplateViolation, Duplicate }

\* C12: no refund on late rejection.  A request refused by a later gate
\* (credential limiter, quota, template, dedup, content filter) leaves the
\* origin bucket one token below its refilled level if it passed the origin
\* limiter, the credential bucket one token below if it passed the
\* credential limiter, and the credential's count one above if it passed the
\* quota gate; no other bucket changes and no count decreases.
C12_NoRefund ==
    [][(IsRequest /\ response'.status \in {400, 429}) =>
          LET ip == response'.ip
              k == response'.api_key
              reset == last_quota_reset' # last_quota_reset
              counted(x) == IF reset THEN 0 ELSE get(key_daily_count, x, 0)
          IN  /\ (response'.detail \in LaterGateRejection \/ Head(response'.detail) = "Blocked: ")
                    <=> went(trace', "key_bucket")
              /\ went(trace', "key_bucket") =>
                    ip_buckets'[ip]["tokens"] =
                        Refilled(get(ip_buckets, ip, EmptyDict), now') - SECONDS_PER_MINUTE
              /\ went(trace', "enforce_quotas") =>
                    key_buckets'[k]["tokens"] =
                        Refilled(get(key_buckets, k, EmptyDict), now') - SECONDS_PER_MINUTE
              /\ went(trace', "normalize_text") =>
                    key_daily_count'[k] = counted(k) + 1
              /\ \A x \in DOMAIN ip_buckets \ {ip} : ip_buckets'[x] = ip_buckets[x]
              /\ \A x \in DOMAIN key_buckets \ {k} : key_buckets'[x] = key_buckets[x]
              /\ \A x \in DOMAIN key_daily_count : get(key_daily_count', x, 0) >= counted(x)
      ]_vars

\* C12 witness: a request refused by the content filter after it took the
\* last quota unit of its credential and a token of each bucket.
C12_Witness ==
    /\ response.status = 400
    /\ Head(response.detail) = "Blocked: "
    /\ key_daily_count[response.api_key] = DAILY_QUOTA
    /\ ip_buckets[response.ip]["tokens"] < RATE_LIMIT_BURST * SECONDS_PER_MINUTE
    /\ key_buckets[response.api_key]["tokens"] < RATE_LIMIT_BURST * SECONDS_PER_MINUTE

\* The status and detail of the first gate, in the handler's order, that
\* request r fails in the current state; <<0, <<>>>> if it fails none.
FirstFailure(r) ==
    LET k == strip_header(r.header)
        p == normalize_text(r.q_prompt)
        counted == IF now - last_quota_reset > DAY THEN 0 ELSE get(key_daily_count, k, 0)
    IN  IF k \notin API_KEYS
            THEN <<401, <<"Missing or invalid API key.">>>>
        ELSE IF Refilled(get(ip_buckets, r.client, EmptyDict), now) < SECONDS_PER_MINUTE
            THEN <<429, <<"IP rate limit exceeded.">>>>
        ELSE IF Refilled(get(key_buckets, k, EmptyDict), now) < SECONDS_PER_MINUTE
            THEN <<429, <<"API key rate limit exceeded.">>>>
        ELSE IF counted >= DAILY_QUOTA
            THEN <<429, QuotaExceeded>>
        ELSE IF p = <<>> \/ Head(strip(p) \o <<"">>) \notin APPROVED_PREFIXES
            THEN <<400, TemplateViolation>>
        ELSE IF \E i \in DOMAIN RECENT_HASHES : RECENT_HASHES[i] = fingerprint(p)
            THEN <<429, Duplicate>>
        ELSE IF Blank(p)
            THEN <<400, <<"Blocked: ", "Empty prompt.", "">>>>
        ELSE IF len(p) > MAX_PROMPT_LEN
            THEN <<400, <<"Blocked: ", "Prompt too long (>5000 chars).", "">>>>
        ELSE IF \E i \in DOMAIN RULES : search(RULES[i], p)
            THEN <<400, <<"Blocked: ", "Blocked by rule: ">>>>
        ELSE <<0, <<>>>>

\* C13: a request is rejected with the kind of the first gate in pipeline
\* order that it fails, and each kind has its fixed status and its own detail
\* text: 401 for a missing or unknown credential; 429 for the origin limiter,
\* the credential limiter, the quota and the duplicate check; 400 for the
\* template and for the content filter's empty, too long and policy reasons;
\* a request that fails no gate is not rejected (200, or 500 from the backend).
C13_FirstFailingGate ==
    [][\A id \in DOMAIN inflight : id \notin DOMAIN inflight' =>
          LET f == FirstFailure(inflight[id])
          IN  /\ response'.status = IF f[1] = 0 THEN response'.status ELSE f[1]
              /\ f[1] = 0 <=> response'.status \in {200, 500}
              /\ f[1] # 0 => SubSeq(response'.detail, 1, Len(f[2])) = f[2]
              /\ (f[1] # 0 /\ Len(f[2]) = 1) => response'.detail = f[2]
      ]_vars

\* C13 witness: a request refused by the credential limiter that the quota
\* gate would have refused as well.
C13_Witness ==
    /\ response.detail = <<"API key rate limit exceeded.">>
    /\ key_daily_count[response.api_key] >= DAILY_QUOTA
    /\ ip_buckets[response.ip]["tokens"] < (RATE_LIMIT_BURST - 1) * SECONDS_PER_MINUTE

\* C14 (as claimed): every rejected request, at whichever gate it is
\* rejected, has written an audit log entry that carries the requesting origin.
C14_RejectionLogged ==
    response.status \in {400, 401, 429} =>
        \E i \in DOMAIN response.log : response.log[i][2] \in Clients

\* C15 (as claimed): a bucket that held 0 tokens at reading t and has only
\* been denied since allows a check at any reading of at least
\* t + 60 / refill seconds and denies every check before it, however many
\* denied checks lie in between.
C15_NoElapsedTimeLost ==
    (lone_bucket.checks > 0 /\ lone_bucket.float.zero_before >= 0) =>
        (lone_bucket.float.allowed <=>
            lone_bucket.t >= lone_bucket.float.zero_before + REFILL_SECONDS)

\* The same in exact arithmetic.
RefillExact ==
    (lone_bucket.checks > 0 /\ lone_bucket.exact.zero_before >= 0) =>
        (lone_bucket.exact.allowed <=>
            lone_bucket.t >= lone_bucket.exact.zero_before + REFILL_SECONDS)

\* What one check at reading t leaves in a bucket, as C16 states it: one
\* token less than the refilled level if that is at least one token, the
\* refilled level otherwise.
AfterCheck(before, t) ==
    [tokens |-> IF Refilled(before, t) >= SECONDS_PER_MINUTE
                THEN Refilled(before, t) - SECONDS_PER_MINUTE
                ELSE Refilled(before, t),
     ts |-> t]

\* A denied check of a bucket that leaves it with fewer tokens than it held.
Lowered(before, after) ==
    after["tokens"] < get(before, "tokens", RATE_LIMIT_BURST * SECONDS_PER_MINUTE)

\* C16 (as claimed): one check refills the bucket (a new one holds the
\* burst) to min(burst, tokens + elapsed / 60 * refill); at one token or more
\* it stores one token less with the reading and allows, otherwise it stores
\* the refilled level with the reading and denies, so that a denied check
\* never lowers the token count; a check of one key changes no other key's
\* bucket, and a check of the origin limiter changes no credential bucket.
C16_OneCheck ==
    [][(IsRequest /\ went(trace', "ip_bucket")) =>
          LET ip == response'.ip
              k == response'.api_key
              ip_before == get(ip_buckets, ip, EmptyDict)
              key_before == get(key_buckets, k, EmptyDict)
              t_ip == arrivals'[ip].last
              t_key == now'
              ip_denied == response'.detail = <<"IP rate limit exceeded.">>
              key_denied == response'.detail = <<"API key rate limit exceeded.">>
          IN  /\ ip_denied <=> Refilled(ip_before, t_ip) < SECONDS_PER_MINUTE
              /\ ip_buckets'[ip] = AfterCheck(ip_before, t_ip)
              /\ ip_denied => ~Lowered(ip_before, ip_buckets'[ip])
              /\ \A x \in DOMAIN ip_buckets \ {ip} : ip_buckets'[x] = ip_buckets[x]
              /\ ip_denied => UNCHANGED key_buckets
              /\ ~ip_denied =>
                    /\ key_denied <=> Refilled(key_before, t_key) < SECONDS_PER_MINUTE
                    /\ key_buckets'[k] = AfterCheck(key_before, t_key)
                    /\ key_denied => ~Lowered(key_before, key_buckets'[k])
                    /\ \A x \in DOMAIN key_buckets \ {k} : key_buckets'[x] = key_buckets[x]
      ]_vars

\* C17: the quota reset is process-wide and lazy.  A quota check at reading
\* now resets exactly when now - _last_quota_reset > 24h: then every other
\* credential's count is cleared, _last_quota_reset becomes now, and the
\* request's own check-and-increment runs on the cleared counts (it passes
\* and its count is 1); otherwise _last_quota_reset and every other
\* credential's count stay as they were.  Nothing but a quota check changes
\* the counts or _last_quota_reset, however much time passes.
C17_LazyReset ==
    [][/\ (IsRequest /\ went(trace', "enforce_quotas")) =>
             LET k == response'.api_key
             IN  IF now' - last_quota_reset > DAY
                 THEN /\ last_quota_reset' = now'
                      /\ \A x \in API_KEYS \ {k} : get(key_daily_count', x, 0) = 0
                      /\ key_daily_count'[k] = 1
                      /\ response'.detail # QuotaExceeded
                 ELSE /\ UNCHANGED last_quota_reset
                      /\ \A x \in API_KEYS \ {k} :
                            get(key_daily_count', x, 0) = get(key_daily_count, x, 0)
       /\ ~(IsRequest /\ went(trace', "enforce_quotas")) =>
             UNCHANGED << key_daily_count, last_quota_reset >>
      ]_vars

\* C17 witness: a quota check of one credential has reset the counts when
\* the other credential had been counted, and has been counted itself.
C17_Witness ==
    /\ last_quota_reset = now
    /\ now > DAY
    /\ went(trace, "enforce_quotas")
    /\ key_daily_count[response.api_key] = 1
    /\ \E x \in API_KEYS \ {response.api_key} :
          /\ get(quota_times, x, <<>>) # <<>>
          /\ get(key_daily_count, x, 0) = 0

\* The number of times h is in the ring.
Occurrences(ring, h) == Cardinality({i \in DOMAIN ring : ring[i] = h})

\* C18: a dedup check that finds the fingerprint in the ring leaves the
\* ring as it is (same entries, same order) and refuses; a check that does
\* not find it puts it in once, as the newest entry, behind entries of the
\* ring before; nothing else changes the ring; so the ring never holds a
\* fingerprint twice.
C18_HitLeavesRing ==
    /\ [](\A i \in DOMAIN RECENT_HASHES : Occurrences(RECENT_HASHES, RECENT_HASHES[i]) = 1)
    /\ [][IF IsRequest /\ went(trace', "near_duplicate")
          THEN LET h == fingerprint(response'.prompt)
               IN  IF Occurrences(RECENT_HASHES, h) > 0
                   THEN /\ UNCHANGED RECENT_HASHES
                        /\ response'.detail = Duplicate
                   ELSE /\ Occurrences(RECENT_HASHES', h) = 1
                        /\ RECENT_HASHES'[Len(RECENT_HASHES')] = h
                        /\ \E n \in 0..1 :
                              SubSeq(RECENT_HASHES', 1, Len(RECENT_HASHES') - 1)
                                  = SubSeq(RECENT_HASHES, 1 + n, Len(RECENT_HASHES))
                        /\ response'.detail # Duplicate
          ELSE UNCHANGED RECENT_HASHES
         ]_vars

\* C18 witness: a request was refused as a duplicate of the oldest entry of
\* the full ring.
C18_Witness ==
    /\ response.detail = Duplicate
    /\ Len(RECENT_HASHES) = MAXLEN
    /\ RECENT_HASHES[1] = fingerprint(response.prompt)

\* The rules, by their place in the list, that match somewhere in the text.
Matching(txt) ==
    {n \in DOMAIN DISALLOWED_PATTERNS :
        \E i \in DOMAIN txt : LowerWord(txt[i]) \in PatternWords(DISALLOWED_PATTERNS[n])}

\* C19: the content filter reports a blank text as empty, whatever else it
\* is; otherwise a text of more than MAX_PROMPT_LEN characters as too long,
\* whatever it matches; otherwise the rule that comes first in the list
\* among those that match, wherever in the text the matches are; and it
\* allows a text that no rule matches.
C19_FirstRuleWins ==
    LET txt == filtered.text
        hits == Matching(txt)
    IN  filtered.called => filtered.reason =
            IF Blank(txt) THEN <<"Empty prompt.", "">>
            ELSE IF len(txt) > MAX_PROMPT_LEN THEN <<"Prompt too long (>5000 chars).", "">>
            ELSE IF hits # {}
                 THEN <<"Blocked by rule: ",
                        DISALLOWED_PATTERNS[CHOOSE n \in hits : \A m \in hits : n <= m]>>
            ELSE None

\* C19 witness: the filter was called on a text that the last rule matches
\* before the first one does, and it reported the first rule.
C19_Witness ==
    /\ filtered.called
    /\ Len(filtered.text) >= 2
    /\ filtered.text[1] = "write malware"
    /\ filtered.text[Len(filtered.text)] = "++OVERRIDE_POLICY++"
    /\ filtered.reason = <<"Blocked by rule: ", DISALLOWED_PATTERNS[1]>>

\* The request was refused by the content filter.
ContentRejected(r) == r.status = 400 /\ Head(r.detail) = "Blocked: "

\* C20: the dedup gate records before the content filter runs.  A request
\* refused by the content filter (policy or too long, 400) has left its
\* fingerprint in the ring as the newest entry; and a request whose
\* fingerprint is in the ring when it reaches the dedup gate is refused as a
\* duplicate (429), also when the content filter would refuse its prompt.
C20_RecordedBeforeFilter ==
    [][IsRequest =>
          LET h == fingerprint(response'.prompt)
          IN  /\ ContentRejected(response') =>
                    /\ ~contains(RECENT_HASHES, h)
                    /\ RECENT_HASHES' # <<>>
                    /\ RECENT_HASHES'[Len(RECENT_HASHES')] = h
              /\ (went(trace', "near_duplicate") /\ contains(RECENT_HASHES, h)) =>
                    /\ response'.status = 429
                    /\ response'.detail = Duplicate
                    /\ ~went(trace', "sanitize_input")
      ]_vars

\* C20 witness: a prompt that is too long for the content filter has been
\* submitted again and refused as a duplicate.
C20_Witness ==
    /\ response.detail = Duplicate
    /\ sanitize_input(response.prompt) = <<"Prompt too long (>5000 chars).", "">>

====
